---- MODULE Spec2Model ----
(***************************************************************************)
(* Model of the arithmetic expression evaluator: the expression tree of    *)
(* src/src/expression.rs and the recursive-descent parser of               *)
(* src/src/parser.rs.                                                      *)
(*                                                                         *)
(* A line is a sequence of characters, each character a one-character      *)
(* string.  The parser is modelled twice from the same source lines: as a  *)
(* call-stack machine (one action per straight-line segment of each        *)
(* parsing function, the variables below), and as the recursive operators  *)
(* parse / parse_add / parse_mul / parse_base that compute the result of a *)
(* whole call.  Both use the same cursor operations, the same combinators  *)
(* and the same parse_number.                                              *)
(*                                                                         *)
(* A 64-bit float is modelled as a sign, a numerator and a denominator:    *)
(* d > 0 is the finite value s*n/d (n = 0 keeps its sign: -0.0), n = 1 and *)
(* d = 0 is an infinity, n = 0 and d = 0 is NaN.  Arithmetic is exact;     *)
(* rounding of values f64 cannot represent is not modelled.                *)
(***************************************************************************)
EXTENDS Integers, Sequences, FiniteSets, TLC

VARIABLES line, parser, stack, ret, result

vars == <<line, parser, stack, ret, result>>

\* ------------------------------------------------------------------ bounds
\* Longest line drawn from the full alphabet.
MaxLen == 4
\* Largest digit used as an operand of the operator chains.
MaxDigit == 3

\* ---------------------------------------------------------- f64 arithmetic
RECURSIVE Gcd(_, _)
Gcd(a, b) == IF b = 0 THEN a ELSE Gcd(b, a % b)

Norm(s, n, d) ==
    IF d = 0
    THEN IF n = 0 THEN [s |-> 1, n |-> 0, d |-> 0] ELSE [s |-> s, n |-> 1, d |-> 0]
    ELSE LET g == Gcd(n, d) IN [s |-> s, n |-> n \div g, d |-> d \div g]

NaN == [s |-> 1, n |-> 0, d |-> 0]
IsNaN(a) == a.d = 0 /\ a.n = 0
IsInf(a) == a.d = 0 /\ a.n # 0
IsZero(a) == a.d # 0 /\ a.n = 0

\* -a
FNeg(a) == IF IsNaN(a) THEN a ELSE [a EXCEPT !.s = 0 - a.s]

\* a + b
FAdd(a, b) ==
    IF IsNaN(a) \/ IsNaN(b) THEN NaN
    ELSE IF IsInf(a) /\ IsInf(b) THEN (IF a.s = b.s THEN a ELSE NaN)
    ELSE IF IsInf(a) THEN a
    ELSE IF IsInf(b) THEN b
    ELSE LET num == a.s * a.n * b.d + b.s * b.n * a.d
             den == a.d * b.d
         IN  IF num = 0
             THEN [s |-> IF a.s = -1 /\ b.s = -1 THEN -1 ELSE 1, n |-> 0, d |-> 1]
             ELSE IF num < 0 THEN Norm(-1, 0 - num, den) ELSE Norm(1, num, den)

\* a - b
FSub(a, b) == FAdd(a, FNeg(b))

\* a * b
FMul(a, b) == Norm(a.s * b.s, a.n * b.n, a.d * b.d)

\* a / b
FDiv(a, b) == Norm(a.s * b.s, a.n * b.d, a.d * b.n)

\* a % b: the remainder has the sign of the dividend
FRem(a, b) ==
    IF IsNaN(a) \/ IsNaN(b) \/ IsInf(a) \/ IsZero(b) THEN NaN
    ELSE IF IsInf(b) THEN a
    ELSE Norm(a.s, (a.n * b.d) % (b.n * a.d), a.d * b.d)

\* a < 0.0
FNegative(a) == a.s = -1 /\ a.n # 0

\* ------------------------------------------------------------- expressions
val(l) == [t |-> "Const", v |-> l]
add(l, r) == [t |-> "Add", l |-> l, r |-> r]
sub(l, r) == [t |-> "Sub", l |-> l, r |-> r]
mul(l, r) == [t |-> "Mul", l |-> l, r |-> r]
div(l, r) == [t |-> "Div", l |-> l, r |-> r]
rem(l, r) == [t |-> "Rem", l |-> l, r |-> r]
neg(e) == [t |-> "Neg", e |-> e]
abs(e) == [t |-> "Abs", e |-> e]

_abs(n) == IF FNegative(n) THEN FNeg(n) ELSE n

RECURSIVE eval(_)
eval(self) ==
    CASE self.t = "Const" -> self.v
      [] self.t = "Add" -> FAdd(eval(self.l), eval(self.r))
      [] self.t = "Sub" -> FSub(eval(self.l), eval(self.r))
      [] self.t = "Mul" -> FMul(eval(self.l), eval(self.r))
      [] self.t = "Div" -> FDiv(eval(self.l), eval(self.r))
      [] self.t = "Rem" -> FRem(eval(self.l), eval(self.r))
      [] self.t = "Neg" -> FNeg(eval(self.e))
      [] self.t = "Abs" -> _abs(eval(self.e))

\* ------------------------------------------------------------ parse result
Present(x) == [k |-> "Present", x |-> x]
Absent == [k |-> "Absent"]
Error(msg, i) == [k |-> "Error", msg |-> msg, i |-> i]

\* ------------------------------------------------------------------ cursor
None == "None"

Digit == {"0", "1", "2", "3", "4", "5", "6", "7", "8", "9"}

\* _is_space without the tab
_is_space_no_tab(c) == c # None /\ c = " "

_is_space(c) == c # None /\ (c = " " \/ c = "\t")

_is_number_char(c) == c # None /\ (c \in Digit \/ c = ".")

\* Chars::next: the next character, or None for good once the end is reached
next(str) ==
    IF str = <<>>
    THEN [item |-> None, str |-> <<>>]
    ELSE [item |-> Head(str), str |-> Tail(str)]

\* peek that ends the input at '\n' only
peek_no_cr(p) == IF p.cur # None /\ p.cur = "\n" THEN None ELSE p.cur

peek(p) == IF p.cur # None /\ (p.cur = "\n" \/ p.cur = "\r") THEN None ELSE p.cur

skip(p) ==
    LET nx == next(p.str)
    IN  [idx |-> p.idx + 1, str |-> nx.str, cur |-> nx.item]

RECURSIVE skip_space(_)
skip_space(p) == IF _is_space(peek(p)) THEN skip_space(skip(p)) ELSE p

symbol(p) == peek(skip_space(p))

\* ------------------------------------------------------------------ number
DigitVal(c) ==
    CASE c = "0" -> 0 [] c = "1" -> 1 [] c = "2" -> 2 [] c = "3" -> 3
      [] c = "4" -> 4 [] c = "5" -> 5 [] c = "6" -> 6 [] c = "7" -> 7
      [] c = "8" -> 8 [] c = "9" -> 9

RECURSIVE Pow10(_)
Pow10(k) == IF k = 0 THEN 1 ELSE 10 * Pow10(k - 1)

RECURSIVE DigitsVal(_)
DigitsVal(ds) ==
    IF ds = <<>> THEN 0
    ELSE 10 * DigitsVal(SubSeq(ds, 1, Len(ds) - 1)) + DigitVal(ds[Len(ds)])

\* str::parse::<f64> on a string of digits and periods: at most one period
\* and at least one digit, else Err
parse_f64(st) ==
    LET dots == {i \in 1..Len(st) : st[i] = "."}
        ds == SelectSeq(st, LAMBDA c : c # ".")
        frac == IF dots = {} THEN 0 ELSE Len(st) - (CHOOSE i \in dots : TRUE)
    IN  IF Cardinality(dots) > 1 \/ ds = <<>>
        THEN [ok |-> FALSE, v |-> NaN]
        ELSE [ok |-> TRUE, v |-> Norm(1, DigitsVal(ds), Pow10(frac))]

\* the while loop of parse_number: push the current character, skip, peek
RECURSIVE number_run(_, _)
number_run(p, st) ==
    IF _is_number_char(peek(p))
    THEN number_run(skip(p), Append(st, peek(p)))
    ELSE [p |-> p, st |-> st]

\* parse_number reporting the index where the run ended
parse_number_end_idx(p0) ==
    LET p == skip_space(p0)
        c == peek(p)
    IN  IF ~_is_number_char(c)
        THEN [res |-> Absent, p |-> p]
        ELSE LET run == number_run(p, <<>>)
                 f == parse_f64(run.st)
             IN  [res |-> IF f.ok THEN Present(val(f.v))
                                  ELSE Error("Incorrect number", run.p.idx),
                  p |-> run.p]

parse_number(p0) ==
    LET p == skip_space(p0)
        c == peek(p)
        s == p.idx
    IN  IF ~_is_number_char(c)
        THEN [res |-> Absent, p |-> p]
        ELSE LET run == number_run(p, <<>>)
                 f == parse_f64(run.st)
             IN  [res |-> IF f.ok THEN Present(val(f.v))
                                  ELSE Error("Incorrect number", s),
                  p |-> run.p]

\* ------------------------------------------------- closures and operators
NoOp == "none"

\* closure of rule 2 of parse_base ('-' base)
neg_minus(p, exp) == neg(exp)

\* rule 3 leaving the expression as it is
plus_identity(p, exp) == exp

\* closure of rule 3 of parse_base ('+' base)
neg_plus(p, exp) == neg(exp)

\* rule 4 taking end-of-input for the closing ')'
close_paren_at_end(p0, exp) ==
    LET p == skip_space(p0)
    IN  IF peek(p) # None /\ peek(p) # ")"
        THEN [res |-> Error("Expected ')'", p.idx), p |-> p]
        ELSE [res |-> Present(exp), p |-> skip(p)]

\* closure of rule 4 of parse_base: expect a closing ')'
close_paren(p0, exp) ==
    LET p == skip_space(p0)
    IN  IF peek(p) = None \/ peek(p) # ")"
        THEN [res |-> Error("Expected ')'", p.idx), p |-> p]
        ELSE [res |-> Present(exp), p |-> skip(p)]

\* rule 5 taking end-of-input for the closing '|'
close_bar_at_end(p0, exp) ==
    LET p == skip_space(p0)
    IN  IF peek(p) # None /\ peek(p) # "|"
        THEN [res |-> Error("Expected '|'", p.idx), p |-> p]
        ELSE [res |-> Present(abs(exp)), p |-> skip(p)]

\* closure of rule 5 of parse_base: expect a closing '|'
close_bar(p0, exp) ==
    LET p == skip_space(p0)
    IN  IF peek(p) = None \/ peek(p) # "|"
        THEN [res |-> Error("Expected '|'", p.idx), p |-> p]
        ELSE [res |-> Present(abs(exp)), p |-> skip(p)]

\* the operator match of parse_mul
mul_op(c) ==
    CASE c = "*" -> "Mul" [] c = "/" -> "Div" [] c = "%" -> "Rem" [] OTHER -> NoOp

\* the operator match of parse_add
add_op(c) ==
    CASE c = "+" -> "Add" [] c = "-" -> "Sub" [] OTHER -> NoOp

\* closure of parse_mul: combine the left and the right hand side
mul_node(op, p, rhs) ==
    CASE op = "Mul" -> mul(p, rhs) [] op = "Div" -> div(p, rhs) [] op = "Rem" -> rem(p, rhs)

\* parse_add with the two sides exchanged
add_node_swapped(op, p, rhs) ==
    CASE op = "Add" -> add(rhs, p) [] op = "Sub" -> sub(rhs, p)

\* closure of parse_add: combine the left and the right hand side
add_node(op, p, rhs) ==
    CASE op = "Add" -> add(p, rhs) [] op = "Sub" -> sub(p, rhs)

\* ------------------------------------------------------------- combinators
\* A closure is the name of its body and the operator it captured.
Closure(f, op) == [f |-> f, op |-> op]

\* the closures passed to map: they build a node
apply(func, user_data, x) ==
    CASE func.f = "neg_minus" -> neg_minus(user_data, x)
      [] func.f = "neg_plus" -> neg_plus(user_data, x)
      [] func.f = "mul_node" -> mul_node(func.op, user_data, x)
      [] func.f = "add_node" -> add_node(func.op, user_data, x)

\* the closures passed to monad: they receive the parser by mutable
\* reference, and yield their result and the parser they leave behind
apply_monad(func, user_data, x) ==
    CASE func.f = "close_paren" -> close_paren(user_data, x)
      [] func.f = "close_bar" -> close_bar(user_data, x)

\* map turning whatever is not Present into Absent
map_drop_error(self, user_data, func) ==
    IF self.k = "Present" THEN Present(apply(func, user_data, self.x)) ELSE Absent

map(self, user_data, func) ==
    IF self.k = "Present" THEN Present(apply(func, user_data, self.x)) ELSE self

monad(self, user_data, func) ==
    IF self.k = "Present"
    THEN apply_monad(func, user_data, self.x)
    ELSE [res |-> self, p |-> user_data]

\* --------------------------------------- the parser as recursive functions
\* Each function takes the parser and yields its result and the parser it
\* leaves behind.
RECURSIVE parse_add(_), parse_mul(_), parse_base(_)

parse_base(p0) ==
    LET p == skip_space(p0)
        c == peek(p)
    IN  CASE c = "-" -> LET r == parse_base(skip(p))
                        IN  [res |-> map(r.res, r.p, Closure("neg_minus", NoOp)), p |-> r.p]
          [] c = "+" -> LET r == parse_base(skip(p))
                        IN  [res |-> map(r.res, r.p, Closure("neg_plus", NoOp)), p |-> r.p]
          [] c = "(" -> LET r == parse_add(skip(p))
                        IN  monad(r.res, r.p, Closure("close_paren", NoOp))
          [] c = "|" -> LET r == parse_add(skip(p))
                        IN  monad(r.res, r.p, Closure("close_bar", NoOp))
          [] OTHER -> parse_number(p)

parse_mul(p0) ==
    LET l == parse_base(p0)
    IN  IF l.res.k # "Present" THEN l
        ELSE LET p == skip_space(l.p)
                 op == mul_op(peek(p))
             IN  IF op = NoOp THEN [res |-> Present(l.res.x), p |-> p]
                 ELSE LET right == parse_mul(skip(p))
                      IN  [res |-> map(right.res, l.res.x, Closure("mul_node", op)),
                           p |-> right.p]

parse_add(p0) ==
    LET l == parse_mul(p0)
    IN  IF l.res.k # "Present" THEN l
        ELSE LET p == skip_space(l.p)
                 op == add_op(peek(p))
             IN  IF op = NoOp THEN [res |-> Present(l.res.x), p |-> p]
                 ELSE LET right == parse_add(skip(p))
                      IN  [res |-> map(right.res, l.res.x, Closure("add_node", op)),
                           p |-> right.p]

\* the parser value parse() constructs, before the first character is read
new_parser(s) == [idx |-> 0, str |-> s, cur |-> None]

\* parser.cur = parser.str.next()
prime(p) ==
    LET nx == next(p.str)
    IN  [idx |-> p.idx, str |-> nx.str, cur |-> nx.item]

\* parse() taking a line terminator for extra input
finish_raw_cur(r) ==
    IF r.res.k = "Error" THEN [res |-> r.res, p |-> r.p]
    ELSE LET p == skip_space(r.p)
         IN  [res |-> IF p.cur = None THEN r.res ELSE Error("Extra input", p.idx),
              p |-> p]

\* what parse() makes of the result of the outermost parse_add
finish(r) ==
    IF r.res.k = "Error" THEN [res |-> r.res, p |-> r.p]
    ELSE LET p == skip_space(r.p)
         IN  [res |-> IF peek(p) = None THEN r.res ELSE Error("Extra input", p.idx),
              p |-> p]

parse(s) == finish(parse_add(prime(new_parser(s)))).res

\* ------------------------------------------------------------ input lines
Alphabet == {"1", ".", "+", "*", "(", ")", "|", " ", "\t", "\n", "\r", "x"}

AllLines == UNION {[1..n -> Alphabet] : n \in 0..MaxLen}

DigitChar(d) == <<"0", "1", "2", "3", "4", "5", "6", "7", "8", "9">>[d + 1]

ChainDigits == {DigitChar(d) : d \in 1..MaxDigit}

Signs == {"-", "+"}
AddOps == {"+", "-"}
MulOps == {"*", "/", "%"}
BinOps == AddOps \cup MulOps

\* [sign] a op1 b op2 c
Chains ==
    {sg \o <<a, o1, b, o2, c>> :
        sg \in {<<>>} \cup {<<g>> : g \in Signs},
        a \in ChainDigits, o1 \in BinOps, b \in ChainDigits,
        o2 \in BinOps, c \in ChainDigits}

\* the lines the documentation names
Examples ==
    { <<"1", " ", "2">>, <<"(", "1", "+", "2">>, <<"1", ".", "2", ".", "3">>,
      <<"8", "-", "3", "-", "2">>, <<"-", "3", "*", "2">>, <<"+", "3">>,
      <<"|", "-", "5", "|">>, <<"|", "2", "-", "9", "|">>,
      <<"1", " ", "+", " ", ")">>, <<"1", "+", "\n">> }

Lines == AllLines \cup Chains \cup Examples

\* --------------------------------------------- the parser as a call stack
\* A frame is a call in progress: the function, the place it has reached,
\* and its locals lhs and op.  ret is the value the callee that just
\* returned handed to the frame on top; result is what parse() returned.
NoExp == [t |-> "none"]
NoRes == [k |-> "none"]

Frame(fn, pc, lhs, op) == [fn |-> fn, pc |-> pc, lhs |-> lhs, op |-> op]
Call(fn) == Frame(fn, "start", NoExp, NoOp)

Top == stack[Len(stack)]
Pop == SubSeq(stack, 1, Len(stack) - 1)
At(fn, pc) == stack # <<>> /\ Top.fn = fn /\ Top.pc = pc

\* the frame on top moves on to pc and calls fn
CallFrom(pc, lhs, op, fn) ==
    Append(Append(Pop, Frame(Top.fn, pc, lhs, op)), Call(fn))

Init ==
    /\ line \in Lines
    /\ parser = new_parser(line)
    /\ stack = <<Call("parse")>>
    /\ ret = NoRes
    /\ result = NoRes

\* parse(): read the first character and call parse_add
parse_enter ==
    /\ At("parse", "start")
    /\ parser' = prime(parser)
    /\ stack' = CallFrom("res", NoExp, NoOp, "parse_add")
    /\ UNCHANGED <<line, ret, result>>

\* parse(): match the result of parse_add, skip spaces, look for extra input
parse_return ==
    /\ At("parse", "res")
    /\ LET f == finish([res |-> ret, p |-> parser])
       IN  /\ parser' = f.p
           /\ result' = f.res
    /\ stack' = Pop
    /\ UNCHANGED <<line, ret>>

\* parse_add(): call parse_mul for the left hand side
parse_add_enter ==
    /\ At("parse_add", "start")
    /\ stack' = CallFrom("lhs", NoExp, NoOp, "parse_mul")
    /\ UNCHANGED <<line, parser, ret, result>>

\* parse_add(): match the left hand side, then the operator; return, or
\* skip the operator and call parse_add for the right hand side
parse_add_left ==
    /\ At("parse_add", "lhs")
    /\ IF ret.k # "Present"
       THEN /\ stack' = Pop
            /\ UNCHANGED <<parser, ret>>
       ELSE LET p == skip_space(parser)
                op == add_op(peek(p))
            IN  IF op = NoOp
                THEN /\ parser' = p
                     /\ ret' = Present(ret.x)
                     /\ stack' = Pop
                ELSE /\ parser' = skip(p)
                     /\ ret' = NoRes
                     /\ stack' = CallFrom("rhs", ret.x, op, "parse_add")
    /\ UNCHANGED <<line, result>>

\* parse_add(): map the right hand side to the operator node
parse_add_right ==
    /\ At("parse_add", "rhs")
    /\ ret' = map(ret, Top.lhs, Closure("add_node", Top.op))
    /\ stack' = Pop
    /\ UNCHANGED <<line, parser, result>>

\* parse_mul(): call parse_base for the left hand side
parse_mul_enter ==
    /\ At("parse_mul", "start")
    /\ stack' = CallFrom("lhs", NoExp, NoOp, "parse_base")
    /\ UNCHANGED <<line, parser, ret, result>>

\* parse_mul(): match the left hand side, then the operator; return, or
\* skip the operator and call parse_mul for the right hand side
parse_mul_left ==
    /\ At("parse_mul", "lhs")
    /\ IF ret.k # "Present"
       THEN /\ stack' = Pop
            /\ UNCHANGED <<parser, ret>>
       ELSE LET p == skip_space(parser)
                op == mul_op(peek(p))
            IN  IF op = NoOp
                THEN /\ parser' = p
                     /\ ret' = Present(ret.x)
                     /\ stack' = Pop
                ELSE /\ parser' = skip(p)
                     /\ ret' = NoRes
                     /\ stack' = CallFrom("rhs", ret.x, op, "parse_mul")
    /\ UNCHANGED <<line, result>>

\* parse_mul(): map the right hand side to the operator node
parse_mul_right ==
    /\ At("parse_mul", "rhs")
    /\ ret' = map(ret, Top.lhs, Closure("mul_node", Top.op))
    /\ stack' = Pop
    /\ UNCHANGED <<line, parser, result>>

\* a sign applied to a whole product
inner_rule_mul(c) == IF c \in {"-", "+"} THEN "parse_mul" ELSE "parse_add"

\* the function rules 2 to 5 of parse_base call after skipping the symbol
inner_rule(c) == IF c \in {"-", "+"} THEN "parse_base" ELSE "parse_add"

\* parse_base() rules 2 to 5: skip the symbol and call the inner rule
parse_base_enter ==
    /\ At("parse_base", "start")
    /\ LET p == skip_space(parser)
           c == peek(p)
       IN  /\ c \in {"-", "+", "(", "|"}
           /\ parser' = skip(p)
           /\ stack' = CallFrom(c, NoExp, NoOp, inner_rule(c))
    /\ UNCHANGED <<line, ret, result>>

\* parse_base() rule 1: parse_number
parse_base_number ==
    /\ At("parse_base", "start")
    /\ LET p == skip_space(parser)
           r == parse_number(p)
       IN  /\ peek(p) \notin {"-", "+", "(", "|"}
           /\ parser' = r.p
           /\ ret' = r.res
    /\ stack' = Pop
    /\ UNCHANGED <<line, result>>

\* parse_base() rule 2: map the inner base expression to its negation
parse_base_minus ==
    /\ At("parse_base", "-")
    /\ ret' = map(ret, parser, Closure("neg_minus", NoOp))
    /\ stack' = Pop
    /\ UNCHANGED <<line, parser, result>>

\* parse_base() rule 3: map the inner base expression to its negation
parse_base_plus ==
    /\ At("parse_base", "+")
    /\ ret' = map(ret, parser, Closure("neg_plus", NoOp))
    /\ stack' = Pop
    /\ UNCHANGED <<line, parser, result>>

\* parse_base() rule 4: expect the closing ')'
parse_base_paren ==
    /\ At("parse_base", "(")
    /\ LET r == monad(ret, parser, Closure("close_paren", NoOp))
       IN  /\ ret' = r.res
           /\ parser' = r.p
    /\ stack' = Pop
    /\ UNCHANGED <<line, result>>

\* parse_base() rule 5: expect the closing '|'
parse_base_bar ==
    /\ At("parse_base", "|")
    /\ LET r == monad(ret, parser, Closure("close_bar", NoOp))
       IN  /\ ret' = r.res
           /\ parser' = r.p
    /\ stack' = Pop
    /\ UNCHANGED <<line, result>>

Next ==
    \/ parse_enter
    \/ parse_return
    \/ parse_add_enter
    \/ parse_add_left
    \/ parse_add_right
    \/ parse_mul_enter
    \/ parse_mul_left
    \/ parse_mul_right
    \/ parse_base_enter
    \/ parse_base_number
    \/ parse_base_minus
    \/ parse_base_plus
    \/ parse_base_paren
    \/ parse_base_bar

Spec == Init /\ [][Next]_vars

Done == stack = <<>>

\* the call stack computes what the recursive functions compute
SameAsFunction == Done => result = parse(line)

\* ------------------------------------------------ the line, read directly
\* What the properties below say about a line is read off the line itself,
\* with 0-based character indices as the parser reports them.
IsSpaceCh(c) == c \in {" ", "\t"}
IsEolCh(c) == c \in {"\n", "\r"}
IsNumCh(c) == c \in Digit \cup {"."}

\* the index of end-of-input: the first line terminator, or the length
LineEnd(l) ==
    CHOOSE e \in 0..Len(l) :
        /\ e = Len(l) \/ IsEolCh(l[e + 1])
        /\ \A m \in 1..e : ~IsEolCh(l[m])

\* the character at index j, None at or after end-of-input
CharAt(l, j) == IF j < LineEnd(l) THEN l[j + 1] ELSE None

\* the index of the first character at or after i that is no space or tab
NonSpaceFrom(l, i) ==
    CHOOSE j \in i..Len(l) :
        /\ j = Len(l) \/ ~IsSpaceCh(l[j + 1])
        /\ \A m \in (i + 1)..j : IsSpaceCh(l[m])

\* the index just past the maximal run of digits and periods starting at s
RunEnd(l, s) ==
    CHOOSE e \in s..Len(l) :
        /\ e = Len(l) \/ ~IsNumCh(l[e + 1])
        /\ \A m \in (s + 1)..e : IsNumCh(l[m])

Dots(st) == Cardinality({i \in 1..Len(st) : st[i] = "."})

\* empty, or only spaces and tabs, up to end-of-input
Blank(l) == \A m \in 1..LineEnd(l) : IsSpaceCh(l[m])

\* an Error in ret reaches the caller of parse() as it is
ErrorReachesResult ==
    ret.k = "Error" /\ ~Done => ret' = ret /\ (Done' => result' = ret)

\* ---------------------------------------------------------------------- C1
\* C1: when the outermost parse_add has returned Present or Absent, parse
\* returns Error("Extra input", j) if the first character that is no space
\* or tab at or after the cursor, at index j, is not end-of-input, and
\* returns the result of parse_add otherwise; "1 2" gives position 2.
C1_ExtraInput ==
    [][ /\ At("parse", "res") /\ ret.k \in {"Present", "Absent"} =>
            LET j == NonSpaceFrom(line, parser.idx)
            IN  IF CharAt(line, j) # None
                THEN result' = Error("Extra input", j)
                ELSE result' = ret
        /\ Done' /\ line = <<"1", " ", "2">> => result' = Error("Extra input", 2)
      ]_vars

C1_Witness ==
    /\ Done /\ ret.k = "Present"
    /\ result.k = "Error" /\ result.msg = "Extra input"
    /\ result.i >= 2 /\ IsSpaceCh(line[result.i])

\* ---------------------------------------------------------------------- C2
Unclosed(c) ==
    LET j == NonSpaceFrom(line, parser.idx)
    IN  /\ At("parse_base", c) /\ ret.k = "Present"
        /\ CharAt(line, j) # (IF c = "(" THEN ")" ELSE "|")

\* C2: when the inner expression of a '(' (a '|') is Present and the next
\* character that is no space or tab, at index j, is not ')' (not '|'),
\* end-of-input included, the group yields Error("Expected ')'", j)
\* (Error("Expected '|'", j)), and parse returns that Error; "(1+2" gives
\* position 4.
C2_UnbalancedGroup ==
    [][ /\ Unclosed("(") =>
            ret' = Error("Expected ')'", NonSpaceFrom(line, parser.idx))
        /\ Unclosed("|") =>
            ret' = Error("Expected '|'", NonSpaceFrom(line, parser.idx))
        /\ ErrorReachesResult
        /\ Done' /\ line = <<"(", "1", "+", "2">> =>
            result' = Error("Expected ')'", 4)
      ]_vars

C2_Witness ==
    /\ Done /\ result.k = "Error" /\ result.msg = "Expected '|'"
    /\ result.i = Len(line) /\ result.i >= 3 /\ IsSpaceCh(line[result.i])

C4_AbsentOnlyBlank == Done /\ ~Blank(line) => result.k # "Absent"

\* ---------------------------------------------------------------------- C5
\* C5: a line that is empty or only spaces and tabs up to end-of-input
\* (whatever follows a line terminator) makes parse return Absent.
C5_BlankAbsent == Done /\ Blank(line) => result = Absent

C5_Witness ==
    /\ Done /\ Blank(line) /\ result = Absent
    /\ LineEnd(line) >= 2 /\ LineEnd(line) + 1 < Len(line)
    /\ ~IsSpaceCh(line[Len(line)]) /\ ~IsEolCh(line[Len(line)])

\* ------------------------------------------------------- operator chains
\* [sign] a op1 b op2 c, read off the line
IsChain(l) ==
    /\ Len(l) \in {5, 6}
    /\ Len(l) = 6 => l[1] \in Signs
    /\ LET off == Len(l) - 5
       IN  /\ l[off + 1] \in Digit /\ l[off + 3] \in Digit /\ l[off + 5] \in Digit
           /\ l[off + 2] \in BinOps /\ l[off + 4] \in BinOps

\* the integer n as a float
IntF(z) == IF z < 0 THEN [s |-> -1, n |-> 0 - z, d |-> 1] ELSE [s |-> 1, n |-> z, d |-> 1]

Leaf(c) == val(IntF(DigitVal(c)))

BinNode(o, l, r) ==
    CASE o = "+" -> add(l, r) [] o = "-" -> sub(l, r) [] o = "*" -> mul(l, r)
      [] o = "/" -> div(l, r) [] o = "%" -> rem(l, r)

IntOp(o, x, y) == IF o = "+" THEN x + y ELSE x - y

ChainOf(l) ==
    LET off == Len(l) - 5
    IN  [A |-> IF off = 1 THEN neg(Leaf(l[2])) ELSE Leaf(l[1]),
         a |-> IF off = 1 THEN 0 - DigitVal(l[2]) ELSE DigitVal(l[1]),
         o1 |-> l[off + 2],
         B |-> Leaf(l[off + 3]), b |-> DigitVal(l[off + 3]),
         o2 |-> l[off + 4],
         C |-> Leaf(l[off + 5]), c |-> DigitVal(l[off + 5])]

SameLevel(o1, o2) ==
    (o1 \in AddOps /\ o2 \in AddOps) \/ (o1 \in MulOps /\ o2 \in MulOps)

\* ---------------------------------------------------------------------- C6
\* C6: a chain a op1 b op2 c of two operators of the same level is built as
\* op1(a, op2(b, c)); an additive chain evaluates to a op1 (b op2 c), and
\* "8-3-2" to 7.
C6_RightAssociative ==
    /\ Done /\ IsChain(line) /\ SameLevel(ChainOf(line).o1, ChainOf(line).o2) =>
        LET ch == ChainOf(line)
        IN  /\ result = Present(BinNode(ch.o1, ch.A, BinNode(ch.o2, ch.B, ch.C)))
            /\ ch.o1 \in AddOps =>
                eval(result.x) = IntF(IntOp(ch.o1, ch.a, IntOp(ch.o2, ch.b, ch.c)))
    /\ Done /\ line = <<"8", "-", "3", "-", "2">> =>
        result.k = "Present" /\ eval(result.x) = IntF(7)

C6_Witness ==
    /\ Done /\ IsChain(line) /\ Len(line) = 5
    /\ line[2] = "/" /\ line[4] = "%"
    /\ result.k = "Present" /\ result.x.t = "Div" /\ result.x.r.t = "Rem"

\* ---------------------------------------------------------------------- C7
\* C7: a sign applies to the operand that follows it only, and a
\* multiplicative operator binds tighter than an additive one on either
\* side: [sign] a + b * c is Add(a, Mul(b, c)) and [sign] a * b + c is
\* Add(Mul(a, b), c), the signed a being Neg(a); "-3*2" is Mul(Neg(3), 2)
\* and evaluates to -6.
C7_Precedence ==
    /\ Done /\ IsChain(line) /\ ~SameLevel(ChainOf(line).o1, ChainOf(line).o2) =>
        LET ch == ChainOf(line)
        IN  IF ch.o1 \in AddOps
            THEN result = Present(BinNode(ch.o1, ch.A, BinNode(ch.o2, ch.B, ch.C)))
            ELSE result = Present(BinNode(ch.o2, BinNode(ch.o1, ch.A, ch.B), ch.C))
    /\ Done /\ Len(line) = 4 /\ line[1] \in Signs /\ line[2] \in Digit
            /\ line[3] \in BinOps /\ line[4] \in Digit =>
        result = Present(BinNode(line[3], neg(Leaf(line[2])), Leaf(line[4])))
    /\ Done /\ line = <<"-", "3", "*", "2">> => eval(result.x) = IntF(-6)

C7_Witness ==
    /\ Done /\ IsChain(line) /\ Len(line) = 6
    /\ line[1] = "-" /\ line[3] \in MulOps /\ line[5] \in AddOps
    /\ result.k = "Present" /\ result.x.t \in {"Add", "Sub"}
    /\ result.x.l.t \in {"Mul", "Div", "Rem"} /\ result.x.l.l.t = "Neg"

\* ---------------------------------------------------------------------- C8
\* the line is a sign followed by one base expression and nothing else
SignedBase(l) ==
    /\ Len(l) >= 1 /\ l[1] \in Signs
    /\ LET b == parse_base(prime(new_parser(Tail(l))))
       IN  /\ b.res.k = "Present"
           /\ CharAt(Tail(l), NonSpaceFrom(Tail(l), b.p.idx)) = None

\* C8: '+' before a base expression e builds Neg(e) just as '-' does, so
\* the signed expression evaluates to the negation of e; a line that is a
\* sign followed by a base expression e parses to Neg(e), "+3" evaluates
\* to -3, and each further leading sign negates once more.
C8_UnaryPlusNegates ==
    [][ /\ (At("parse_base", "+") \/ At("parse_base", "-")) /\ ret.k = "Present" =>
            /\ ret' = Present(neg(ret.x))
            /\ eval(ret'.x) = FNeg(eval(ret.x))
        /\ Done' /\ SignedBase(line) =>
            LET e == parse_base(prime(new_parser(Tail(line)))).res.x
            IN  /\ result' = Present(neg(e))
                /\ eval(result'.x) = FNeg(eval(e))
        /\ Done' /\ line = <<"+", "3">> => eval(result'.x) = IntF(-3)
      ]_vars

C8_Witness ==
    /\ Done /\ Len(line) >= 3 /\ line[1] = "+" /\ line[2] = "+"
    /\ result.k = "Present" /\ result.x.t = "Neg" /\ result.x.e.t = "Neg"
    /\ eval(result.x) = eval(result.x.e.e)

\* ---------------------------------------------------------------------- C9
Insert(l, g, w) == SubSeq(l, 1, g) \o <<w>> \o SubSeq(l, g + 1, Len(l))
Remove(l, i) == SubSeq(l, 1, i - 1) \o SubSeq(l, i + 1, Len(l))

\* the gap after the g-th character lies inside a numeric literal
InsideLiteral(l, g) == g >= 1 /\ g < Len(l) /\ IsNumCh(l[g]) /\ IsNumCh(l[g + 1])

\* the i-th character is all that separates two numeric literals
SeparatesLiterals(l, i) ==
    i > 1 /\ i < Len(l) /\ IsNumCh(l[i - 1]) /\ IsNumCh(l[i + 1])

\* the same kind, the same message, the same tree
SameOutcome(r1, r2) ==
    /\ r1.k = r2.k
    /\ r1.k = "Error" => r1.msg = r2.msg
    /\ r1.k = "Present" => r1.x = r2.x /\ eval(r1.x) = eval(r2.x)

InsertKeepsOutcome ==
    \A g \in 0..Len(line) : \A w \in {" ", "\t"} :
        ~InsideLiteral(line, g) => SameOutcome(result, parse(Insert(line, g, w)))

\* C9 as stated: a space or tab inserted anywhere but inside a numeric
\* literal, or any space or tab removed, leaves the kind of the outcome, the
\* message and the tree unchanged.
C9_WhitespaceInsignificant ==
    Done =>
        /\ InsertKeepsOutcome
        /\ \A i \in 1..Len(line) :
            IsSpaceCh(line[i]) => SameOutcome(result, parse(Remove(line, i)))

\* C9 amended: as above, but a space or tab that alone separates two
\* numeric literals is kept.
C9_WhitespaceBetweenTokens ==
    Done =>
        /\ InsertKeepsOutcome
        /\ \A i \in 1..Len(line) :
            IsSpaceCh(line[i]) /\ ~SeparatesLiterals(line, i) =>
                SameOutcome(result, parse(Remove(line, i)))

C9_Witness ==
    /\ Done /\ result.k = "Present"
    /\ \E i \in 2..(Len(line) - 1) :
        /\ line[i] = "\t"
        /\ ~IsSpaceCh(line[i - 1]) /\ ~IsSpaceCh(line[i + 1])
        /\ i < LineEnd(line)
        /\ parse(Remove(line, i)) = result

\* --------------------------------------------------------------------- C10
\* C10: a function that receives Absent or Error from the function it
\* called returns it unchanged, without moving the cursor and without
\* calling anything; an Error therefore reaches the caller of parse() with
\* its message and position, and once it has arisen the cursor does not
\* move, no call is made and no node is built.
C10_Propagation ==
    [][ /\ ret.k = "Error" /\ ~Done =>
            /\ ret' = ret /\ parser' = parser /\ stack' = Pop
            /\ Done' => result' = ret
        /\ ret.k = "Absent" /\ ~Done /\ Top.fn # "parse" =>
            ret' = ret /\ parser' = parser /\ stack' = Pop
      ]_vars

C10_Witness ==
    /\ ~Done /\ ret.k = "Error" /\ Len(stack) >= 6
    /\ Top.fn = "parse_base" /\ Top.pc = "("

\* --------------------------------------------------------------------- C11
\* the layer of the grammar a function parses
Rank(fn) ==
    CASE fn = "parse_base" -> 0 [] fn = "parse_mul" -> 1
      [] fn = "parse_add" -> 2 [] fn = "parse" -> 3

\* the step calls a function of the caller's layer or of a layer above it
RecursiveCall ==
    /\ ~Done /\ Len(stack') = Len(stack) + 1
    /\ Rank(stack'[Len(stack')].fn) >= Rank(Top.fn)

\* the characters not yet consumed: the current one and those left in str
Unconsumed == Len(parser.str) + (IF parser.cur = None THEN 0 ELSE 1)

\* The steps a call in progress can still take without consuming a
\* character, the calls it makes into the layers below included.
Potential(f) ==
    CASE f.fn = "parse" /\ f.pc = "start" -> 7
      [] f.fn = "parse_add" /\ f.pc = "start" -> 5
      [] f.fn = "parse_mul" /\ f.pc = "start" -> 3
      [] OTHER -> 1

\* the steps left to the n calls at the bottom of the stack
RECURSIVE SumPotential(_)
SumPotential(n) ==
    IF n = 0 THEN 0 ELSE Potential(stack[n]) + SumPotential(n - 1)

\* a bound on the steps left: every character still to consume pays for one
\* more call of parse_add and the return of its caller
Measure ==
    (Potential(Call("parse_add")) + 1) * (Len(line) - parser.idx)
        + SumPotential(Len(stack))

\* the steps of Next but rule 1 of parse_base
StepsButNumber ==
    \/ parse_enter \/ parse_return
    \/ parse_add_enter \/ parse_add_left \/ parse_add_right
    \/ parse_mul_enter \/ parse_mul_left \/ parse_mul_right
    \/ parse_base_enter
    \/ parse_base_minus \/ parse_base_plus \/ parse_base_paren \/ parse_base_bar

\* before parse() has returned a step can be taken: one of the above, or
\* rule 1 of parse_base, whose only condition is the symbol it sees
CanStep ==
    \/ ENABLED StepsButNumber
    \/ At("parse_base", "start") /\ symbol(parser) \notin {"-", "+", "(", "|"}

\* what holds of the cursor and of the call stack whenever parse() is looked
\* at: idx counts exactly the characters consumed and never exceeds the
\* length of the line, the bound on the steps left is not negative, a step
\* can be taken until parse() has returned, and what it returns is Present,
\* Absent or Error, an Error with a position no greater than the length of
\* the line
InBounds ==
    /\ parser.idx + Unconsumed = Len(line)
    /\ parser.idx <= Len(line)
    /\ Measure >= 0
    /\ Done \/ CanStep
    /\ Done =>
          /\ result.k \in {"Present", "Absent", "Error"}
          /\ result.k = "Error" => result.i <= Len(line)

\* C11: parse terminates on every line. Every call of parse_base, parse_mul
\* or parse_add from its own layer or from a layer below consumes a
\* character first; the cursor moves only from a current character, and idx
\* only grows. Every step lowers the bound on the steps left. InBounds holds
\* throughout: idx never exceeds the length of the line, a step can be taken
\* until parse() has returned, and it returns Present, Absent or Error with
\* a position within the line.
C11_Terminates ==
    /\ [][ /\ RecursiveCall => parser'.idx > parser.idx
           /\ parser'.idx >= parser.idx
           /\ parser'.idx > parser.idx => parser.cur # None
           /\ Measure' < Measure
         ]_vars
    /\ []InBounds

C11_Witness ==
    /\ Done /\ Len(line) >= 4 /\ line[1] = "(" /\ line[2] \in Signs
    /\ parser.idx = Len(line) /\ result.k = "Present"

====
